---- MODULE Spec2Model ----
(***************************************************************************)
(* Epidemic simulation on a contact network (COVID-Simulate).              *)
(*                                                                         *)
(* Two engine variants are modelled: backend/simulation/EpidemicSimulation *)
(* ("backend") and src/simulation.py ("src"), each with its builder, and   *)
(* the SimulationManager of the backend API.                               *)
(*                                                                         *)
(* Numbers: probabilities are in percent (0.3 is 30), a random.random()    *)
(* value is a percent in Draws, an edge weight and a mobility are in       *)
(* tenths (1.0 is 10), so every comparison of the source is an exact       *)
(* integer comparison.  random.sample / random.randint / the network       *)
(* generators are nondeterministic choices.  A python dict is a function   *)
(* whose DOMAIN is the set of its keys.                                    *)
(***************************************************************************)
EXTENDS Integers, Sequences, FiniteSets, TLC

VARIABLES
    variant,          \* which code base the instance belongs to: "backend" | "src"
    cfg,              \* the builder's fields (set by the fluent setters)
    builder_network,  \* builder._network: None or a network
    sim,              \* "none" until a Simulation object was constructed, then "live"
    network,          \* self.network: None or a network
    node_states,      \* self.node_states
    infection_day,    \* self.infection_day
    recovery_day,     \* self.recovery_day
    immunity_until,   \* self.immunity_until
    stats,            \* self.stats: five lists
    current_day,      \* self.current_day
    simulations,      \* SimulationManager.simulations: the registered ids
    pc,               \* "idle", or "run_loop" inside run_simulation's for loop
    run_day,          \* run_simulation: the loop variable `day`
    run_days,         \* run_simulation: the argument `days`
    last_call,        \* the last completed call: its name, its outcome, its return value
    init_calls,       \* history: "never" called, only "failed" calls, or some call "ok"
    inits,            \* history: the number of initialize_infection calls so far
    stepped_early,    \* history: simulate_day ran before any initialize_infection
    day_log,          \* history: what the last simulate_day did since the last
                      \* initialize_infection: how it ended, the value it returned,
                      \* its new_infections list, its random.randint draws
    threads,          \* the request handlers inside SimulationManager.advance_simulation:
                      \* each one's position and its list(self.node_states.items())
    built,            \* history: the simulations build() returned on this builder, each
                      \* by the identity of its Network object and of its state maps
    registry          \* SimulationManager.simulations where several simulations are
                      \* stored: id -> the fields and the network of that simulation

engine == <<node_states, infection_day, recovery_day, immunity_until, stats, current_day>>
vars == <<variant, cfg, builder_network, sim, network, node_states, infection_day,
          recovery_day, immunity_until, stats, current_day, simulations, pc,
          run_day, run_days, last_call, init_calls, inits, stepped_early, day_log,
          threads, built, registry>>

(***************************************************************************)
(* Bounds of the model.                                                    *)
(***************************************************************************)
NumNodes == 3
MaxDay == 3
MaxSnapshots == 4
MaxRunDays == 2
MaxInits == 2
MaxBuilds == 2
MaxHandlers == 2
\* The longer horizon of LongSpec, explored for LongRunConfigs only.
LongMaxDay == 4
LongMaxSnapshots == 5

Nodes == 1..NumNodes

Draws == {0, 99}

(***************************************************************************)
(* Node states of the engine.                                              *)
(***************************************************************************)
Susceptible == 0
Infected == 1
Recovered == 2
Deceased == 3

(***************************************************************************)
(* Networks.  Every network of the model has the nodes 1..NumNodes, kept   *)
(* in this order by network.nodes() and network.neighbors().               *)
(***************************************************************************)
PathEdges == {{i, i + 1} : i \in 1..(NumNodes - 1)}
RingEdges == PathEdges \cup {{1, NumNodes}}

KnownModels == {"barabasi_albert", "watts_strogatz", "erdos_renyi"}

Topologies(model) ==
    CASE model = "barabasi_albert" -> {PathEdges}
      [] model = "watts_strogatz" -> {RingEdges}
      [] model = "erdos_renyi" -> {PathEdges, RingEdges}
      [] OTHER -> {}

DefaultWeight == 10
MinWeight == 5

\* No network: the python value None.
None == [none |-> TRUE, edges |-> {}, weight |-> [e \in {} |-> 0]]

\* A generated network without edge weights (the engine's generate_network).
PlainNetwork(edges) == [none |-> FALSE, edges |-> edges, weight |-> [e \in {} |-> 0]]
\* A generated network with edge weights (the backend builder's _create_network).
WeightedNetwork(edges, w) ==
    [none |-> FALSE, edges |-> edges, weight |-> [e \in edges |-> w]]

\* The node attributes the generators draw: health in percent, age in years,
\* mobility in tenths.
health == [n \in Nodes |-> (n * 40) % 100]
age == [n \in Nodes |-> 30 + 15 * n]
mobility == [n \in Nodes |-> 5 * n]

\* neighbors taken to be every other node
neighbors_all(net, n) == Nodes \ {n}

neighbors(net, n) == {m \in Nodes : {n, m} \in net.edges /\ m # n}

\* edge_data.get('weight', 1.0)
social_distance(net, n, m) ==
    IF {n, m} \in DOMAIN net.weight THEN net.weight[{n, m}] ELSE DefaultWeight

(***************************************************************************)
(* Python helpers.                                                         *)
(***************************************************************************)
\* int(x / d) for d > 0: truncation toward zero
int(x, d) == IF x >= 0 THEN x \div d ELSE -((-x) \div d)

\* d[k] = v
Put(d, k, v) == [x \in (DOMAIN d) \cup {k} |-> IF x = k THEN v ELSE d[x]]

\* d.get(k, default)
Get(d, k, default) == IF k \in DOMAIN d THEN d[k] ELSE default

Min(S) == CHOOSE x \in S : \A y \in S : x <= y
Max(S) == CHOOSE x \in S : \A y \in S : x >= y

EmptyDict == [n \in {} |-> 0]
EmptyStats == [day |-> <<>>, susceptible |-> <<>>, infected |-> <<>>,
               recovered |-> <<>>, deceased |-> <<>>]

\* The engine fields as one record, and the assignment of such a record.
Self == [node_states |-> node_states, infection_day |-> infection_day,
         recovery_day |-> recovery_day, immunity_until |-> immunity_until,
         stats |-> stats, current_day |-> current_day]

Assign(e) ==
    /\ node_states' = e.node_states
    /\ infection_day' = e.infection_day
    /\ recovery_day' = e.recovery_day
    /\ immunity_until' = e.immunity_until
    /\ stats' = e.stats
    /\ current_day' = e.current_day

\* EpidemicSimulation.__init__: the fields after construction
NewSelf == [node_states |-> EmptyDict, infection_day |-> EmptyDict,
            recovery_day |-> EmptyDict, immunity_until |-> EmptyDict,
            stats |-> EmptyStats, current_day |-> 0]

(***************************************************************************)
(* The configuration.                                                      *)
(***************************************************************************)
BaseConfig == [infection_probability |-> 100, recovery_days |-> <<1, 2>>,
               initial_infected_percent |-> 34, mortality_rate |-> 50,
               immunity_period |-> 0, network_model |-> "barabasi_albert"]

\* Configurations within the ranges of the data model: the base configuration
\* with at most two fields changed.
ConfigFields == {"infection_probability", "recovery_days", "initial_infected_percent",
                 "mortality_rate", "immunity_period"}

InRangeConfigs ==
    {c \in [infection_probability : {0, 100},
            recovery_days : {<<1, 1>>, <<1, 2>>},
            initial_infected_percent : {0, 34, 67},
            mortality_rate : {0, 50, 100},
            immunity_period : {0, 2},
            network_model : {"barabasi_albert"}] :
        Cardinality({f \in ConfigFields : c[f] # BaseConfig[f]}) <= 2}

\* The base configuration with one field changed: another network model, or
\* a value outside the ranges of the data model.
OtherConfigs ==
    {[BaseConfig EXCEPT !.network_model = m] :
        m \in {"watts_strogatz", "erdos_renyi", "unknown"}}
    \cup {[BaseConfig EXCEPT !.infection_probability = p] : p \in {-10, 150}}
    \cup {[BaseConfig EXCEPT !.recovery_days = r] : r \in {<<2, 1>>, <<0, 1>>}}
    \cup {[BaseConfig EXCEPT !.initial_infected_percent = p] : p \in {-50, -20, 150}}
    \cup {[BaseConfig EXCEPT !.mortality_rate = p] : p \in {-10, 150}}
    \cup {[BaseConfig EXCEPT !.immunity_period = d] : d \in {-1}}

Configs == InRangeConfigs \cup OtherConfigs

\* The constraints the data model puts on a configuration.
ValidConfig(c) ==
    /\ c.infection_probability \in 0..100
    /\ c.initial_infected_percent \in 0..100
    /\ c.mortality_rate \in 0..100
    /\ c.recovery_days[1] >= 1
    /\ c.recovery_days[2] >= 1
    /\ c.recovery_days[1] <= c.recovery_days[2]
    /\ c.immunity_period >= 0

\* random.randint(self.recovery_days_range[0], self.recovery_days_range[1])
RecoveryPeriods == cfg.recovery_days[1]..cfg.recovery_days[2]

(***************************************************************************)
(* _update_stats                                                           *)
(***************************************************************************)
Count(ns, state) == Cardinality({n \in DOMAIN ns : ns[n] = state})

\* _update_stats with the recovered count taken as `state >= 2`
_update_stats_overcount(e) ==
    [e EXCEPT !.stats =
        [day |-> Append(e.stats.day, e.current_day),
         susceptible |-> Append(e.stats.susceptible, Count(e.node_states, Susceptible)),
         infected |-> Append(e.stats.infected, Count(e.node_states, Infected)),
         recovered |-> Append(e.stats.recovered,
             Count(e.node_states, Recovered) + Count(e.node_states, Deceased)),
         deceased |-> Append(e.stats.deceased, Count(e.node_states, Deceased))]]

_update_stats(e) ==
    [e EXCEPT !.stats =
        [day |-> Append(e.stats.day, e.current_day),
         susceptible |-> Append(e.stats.susceptible, Count(e.node_states, Susceptible)),
         infected |-> Append(e.stats.infected, Count(e.node_states, Infected)),
         recovered |-> Append(e.stats.recovered, Count(e.node_states, Recovered)),
         deceased |-> Append(e.stats.deceased, Count(e.node_states, Deceased))]]

(***************************************************************************)
(* initialize_infection: the set of outcomes of one call, each the engine  *)
(* fields after the call and how the call ended.  `picked` is the result   *)
(* of random.sample (as a set, `first` its first element), `period` the    *)
(* random.randint draws.                                                   *)
(***************************************************************************)
num_initial_infected == int(cfg.initial_infected_percent * NumNodes, 100)

\* The samples random.sample can return.
Samples == {S \in SUBSET Nodes : Cardinality(S) = num_initial_infected}

initialize_infection(e, net) ==
    LET cleared == [n \in (DOMAIN e.node_states) \cup Nodes |->
                       IF n \in Nodes THEN Susceptible ELSE e.node_states[n]]
        e1 == [e EXCEPT !.node_states = cleared]
    IN  IF net = None
        THEN \* self.network.nodes() on None
             {[self |-> e, result |-> "AttributeError"]}
        ELSE IF num_initial_infected < 0 \/ num_initial_infected > NumNodes
        THEN \* random.sample: sample larger than population or negative
             {[self |-> e1, result |-> "ValueError"]}
        ELSE IF num_initial_infected > 0 /\ RecoveryPeriods = {}
        THEN \* random.randint on an empty range, for the first sampled node
             {[self |-> [e1 EXCEPT !.node_states[first] = Infected,
                                   !.infection_day = Put(@, first, 0)],
               result |-> "ValueError"] : first \in Nodes}
        ELSE {[self |-> _update_stats(
                  [e1 EXCEPT
                     !.node_states = [n \in DOMAIN cleared |->
                         IF n \in picked THEN Infected ELSE cleared[n]],
                     !.infection_day = [n \in (DOMAIN @) \cup picked |->
                         IF n \in picked THEN 0 ELSE @[n]],
                     !.recovery_day = [n \in (DOMAIN @) \cup picked |->
                         IF n \in picked THEN e.current_day + period[n] ELSE @[n]]]),
               result |-> "ok"] :
                  <<picked, period>> \in
                      UNION {{<<S, p>> : p \in [S -> RecoveryPeriods]} : S \in Samples}}

(***************************************************************************)
(* simulate_day: the set of outcomes of one call, each the engine fields   *)
(* after the call, how the call ended and the value returned.              *)
(***************************************************************************)
\* resolves with the comparison taken as `<`
resolves_late(e, day, n) ==
    e.node_states[n] = Infected /\ e.recovery_day[n] < day

\* Resolution phase: state == 1 and self.recovery_day[node] <= self.current_day
resolves(e, day, n) ==
    e.node_states[n] = Infected /\ e.recovery_day[n] <= day

\* wanes without the test that the node is recovered
wanes_any_state(e, day, n) ==
    /\ n \in DOMAIN e.immunity_until
    /\ e.immunity_until[n] <= day

\* wanes with the comparison taken as `<`
wanes_late(e, day, n) ==
    /\ e.node_states[n] = Recovered
    /\ n \in DOMAIN e.immunity_until
    /\ e.immunity_until[n] < day

\* Waning phase: state == 2 and node in self.immunity_until and
\* self.immunity_until[node] <= self.current_day
wanes(e, day, n) ==
    /\ e.node_states[n] = Recovered
    /\ n \in DOMAIN e.immunity_until
    /\ e.immunity_until[n] <= day

\* dies with the comparison taken as `<=`
dies_inclusive(draw) == draw <= cfg.mortality_rate

\* dies with every draw taken one percent higher
dies_less(draw) == draw + 1 < cfg.mortality_rate

\* random.random() < self.mortality_rate
dies(draw) == draw < cfg.mortality_rate

\* trial without the test that the node is infected
trial_any_source(ns, net, n, m) ==
    /\ n \in DOMAIN ns
    /\ m \in neighbors(net, n)
    /\ Get(ns, m, Susceptible) = Susceptible

\* trial with the neighbour tested as `not infected` instead of `susceptible`
trial_not_infected(ns, net, n, m) ==
    /\ n \in DOMAIN ns
    /\ ns[n] = Infected
    /\ m \in neighbors(net, n)
    /\ Get(ns, m, Susceptible) # Infected

\* Transmission phase: an infected node and a susceptible neighbour of it.
trial(ns, net, n, m) ==
    /\ n \in DOMAIN ns
    /\ ns[n] = Infected
    /\ m \in neighbors(net, n)
    /\ Get(ns, m, Susceptible) = Susceptible

\* transmission_view reading the states the day started with
transmission_view_stale(start, live) == start

\* The states the transmission loop reads: self.node_states as the first loop
\* left it (`live`), not as the day started (`start`).
transmission_view(start, live) == live

\* weight_policy with the comparison taken as `<=`
weight_policy_inclusive(net, n, m, draw) ==
    LET d == social_distance(net, n, m)
    IN  draw * d * d <= 50 * cfg.infection_probability

\* backend: random.random() < (infection_probability / social_distance^2) * .5
weight_policy(net, n, m, draw) ==
    LET d == social_distance(net, n, m)
    IN  draw * d * d < 50 * cfg.infection_probability

\* src: random.random() < min(base * health_factor * age_factor * mobility_factor, 0.95)
demographic_policy(n, m, draw) ==
    LET health_factor == 100 - health[m]
        age_factor == 100 + (IF age[m] - 50 > 0 THEN age[m] - 50 ELSE 0)
        mobility_factor == mobility[n] + mobility[m]
    IN  /\ draw * 200000 <
              cfg.infection_probability * health_factor * age_factor * mobility_factor
        /\ draw < 95

\* The formulation an engine computes adjusted_prob with.  Neither engine reads
\* a parameter c for it: each simulate_day holds one formula.
Policies == {"weight", "demographic"}
policy(v, c) == IF v = "backend" THEN "weight" ELSE "demographic"

transmits(v, net, n, m, draw) ==
    IF policy(v, cfg) = "weight" THEN weight_policy(net, n, m, draw)
    ELSE demographic_policy(n, m, draw)

\* The (node, neighbor) pairs in the order the two nested loops visit them.
PairOrder ==
    [k \in 1..(NumNodes * NumNodes) |->
        <<((k - 1) \div NumNodes) + 1, ((k - 1) % NumNodes) + 1>>]

\* new_infections: the neighbours appended, in order, duplicates kept.
new_infections(v, ns, net, draw) ==
    LET hits == SelectSeq(PairOrder,
                    LAMBDA p : /\ trial(ns, net, p[1], p[2])
                               /\ transmits(v, net, p[1], p[2], draw[p]))
    IN  [i \in 1..Len(hits) |-> hits[i][2]]

\* promotes with no candidate promoted by the backend engine
promotes_src_only(v, e, node) == v = "src"

\* Commit phase: the backend engine promotes a candidate only if it is still
\* susceptible; the src engine promotes every entry of the list.
promotes(v, e, node) ==
    v = "src" \/ Get(e.node_states, node, Susceptible) = Susceptible

\* The loop over new_infections from entry i on: the engine fields afterwards
\* and the random.randint draws made, in order, each with the node it was for.
RECURSIVE commit(_, _, _, _, _)
commit(v, c, candidates, period, i) ==
    IF i > Len(candidates) THEN c
    ELSE LET node == candidates[i]
             e == c.self
         IN  IF promotes(v, e, node)
             THEN commit(v,
                      [self |->
                          [e EXCEPT !.node_states = Put(@, node, Infected),
                                    !.infection_day = Put(@, node, e.current_day),
                                    !.recovery_day = Put(@, node, e.current_day + period[i])],
                       randint |-> Append(c.randint, [node |-> node, period |-> period[i]])],
                      candidates, period, i + 1)
             ELSE commit(v, c, candidates, period, i + 1)

\* return len(new_infections) > 1
several_new_infections(candidates) == Len(candidates) > 1

\* return len(new_infections) > 0
any_new_infections(candidates) == Len(candidates) > 0

\* What one simulate_day did.
DayLog(result, ret, candidates, randint) ==
    [result |-> result, ret |-> ret, new_infections |-> candidates, randint |-> randint]

NoDayLog == DayLog("none", FALSE, <<>>, <<>>)

simulate_day(v, e, net) ==
    LET day == e.current_day + 1
        ns == e.node_states
        \* an infected node without a recovery_day entry: self.recovery_day[node]
        \* raises KeyError when the loop reaches it
        missing == {n \in DOMAIN ns : ns[n] = Infected /\ n \notin DOMAIN e.recovery_day}
        reached == {n \in DOMAIN ns : \A x \in missing : n < x}
        resolving == {n \in reached : resolves(e, day, n)}
        waning == {n \in reached : wanes(e, day, n)}
    IN  UNION {
          LET dead == {n \in resolving : dies(mdraw[n])}
              healed == resolving \ dead
              e2 == [e EXCEPT
                        !.current_day = day,
                        !.node_states = [n \in DOMAIN ns |->
                            IF n \in dead THEN Deceased
                            ELSE IF n \in healed THEN Recovered
                            ELSE IF n \in waning THEN Susceptible
                            ELSE ns[n]],
                        !.immunity_until = [n \in (DOMAIN @) \cup healed |->
                            IF n \in healed THEN day + cfg.immunity_period ELSE @[n]]]
              ns2 == transmission_view(ns, e2.node_states)
              trials == {p \in Nodes \X Nodes : trial(ns2, net, p[1], p[2])}
          IN  IF missing # {}
              THEN {[self |-> e2, result |-> "KeyError", ret |-> FALSE,
                     log |-> DayLog("KeyError", FALSE, <<>>, <<>>)]}
              ELSE UNION {
                     LET candidates == new_infections(v, ns2, net, tdraw)
                     IN  IF candidates # <<>> /\ RecoveryPeriods = {}
                         THEN \* random.randint on an empty range, first candidate
                              {[self |-> [e2 EXCEPT
                                    !.node_states = Put(@, candidates[1], Infected),
                                    !.infection_day = Put(@, candidates[1], day)],
                                result |-> "ValueError", ret |-> FALSE,
                                log |-> DayLog("ValueError", FALSE, candidates, <<>>)]}
                         ELSE {LET c == commit(v, [self |-> e2, randint |-> <<>>],
                                               candidates, period, 1)
                               IN  [self |-> _update_stats(c.self),
                                    result |-> "ok",
                                    ret |-> any_new_infections(candidates),
                                    log |-> DayLog("ok", any_new_infections(candidates),
                                                   candidates, c.randint)] :
                                  period \in [1..Len(candidates) -> RecoveryPeriods]}
                     : tdraw \in [trials -> Draws]}
          : mdraw \in [resolving -> Draws]}

(***************************************************************************)
(* Network generation and the builders.                                    *)
(***************************************************************************)
\* The social distances _create_network can draw: max(0.5, min(gamma, 3.0)).
WeightDraws == {MinWeight, DefaultWeight}

\* EpidemicSimulation.generate_network(model, n, m): the network afterwards
\* and how the call ended.
generate_network(net, model) ==
    IF model \in KnownModels
    THEN {[network |-> PlainNetwork(t), result |-> "ok"] : t \in Topologies(model)}
    ELSE \* raise ValueError(f"Unknown model: {model}")
         {[network |-> net, result |-> "ValueError"]}

\* _create_network with the first branch taken for every unrecognised name
_create_network_fallback(b_net, model) ==
    {[network |-> WeightedNetwork(t, w), result |-> "ok"] :
        t \in Topologies(IF model \in KnownModels THEN model ELSE "barabasi_albert"),
        w \in WeightDraws}

\* EpidemicSimulationBuilder._create_network (backend): builder._network
\* afterwards and how the call ended.
_create_network(b_net, model) ==
    IF model \in KnownModels
    THEN {[network |-> WeightedNetwork(t, w), result |-> "ok"] :
             t \in Topologies(model), w \in WeightDraws}
    ELSE \* raise ValueError(f"Unknown network model: {self._network_model}")
         {[network |-> b_net, result |-> "ValueError"]}

\* The parameters EpidemicSimulation.__init__ declares (both engines).
InitParameters == {"network", "infection_probability", "recovery_days",
                   "initial_infected_percent", "mortality_rate", "immunity_period"}

\* The keyword arguments build() passes to EpidemicSimulation(...).
BuildKeywords(v) ==
    IF v = "backend"
    THEN InitParameters \cup {"interaction_distance"}
    ELSE InitParameters

\* EpidemicSimulation(**keywords): an undeclared keyword is a TypeError.
constructs(keywords) == keywords \subseteq InitParameters

\* EpidemicSimulation.__init__ given `net`: self.network afterwards.  The src
\* engine generates the default network when none is given.
init_network(v, net) ==
    IF v = "src" /\ net = None
    THEN {o.network : o \in generate_network(net, "barabasi_albert")}
    ELSE {net}

\* build(): builder._network afterwards, how the call ended and, when a
\* Simulation is returned, its network and whether that network is the very
\* object builder._network refers to (`shared`).
build(v, b_net, c) ==
    IF v = "backend"
    THEN UNION {
           IF o.result # "ok"
           THEN {[builder_network |-> o.network, result |-> o.result, network |-> None,
                  shared |-> FALSE]}
           ELSE IF ~constructs(BuildKeywords(v))
           THEN {[builder_network |-> o.network, result |-> "TypeError",
                  network |-> None, shared |-> FALSE]}
           ELSE {[builder_network |-> o.network, result |-> "ok", network |-> o.network,
                  shared |-> TRUE]}
           : o \in (IF b_net = None THEN _create_network(b_net, c.network_model)
                    ELSE {[network |-> b_net, result |-> "ok"]})}
    ELSE UNION {
           IF b_net # None
           THEN {[builder_network |-> b_net, result |-> "ok", network |-> n0,
                  shared |-> TRUE]}
           ELSE {[builder_network |-> b_net, result |-> o.result,
                  network |-> IF o.result = "ok" THEN o.network ELSE None,
                  shared |-> FALSE] :
                    o \in generate_network(n0, c.network_model)}
           : n0 \in init_network(v, b_net)}

(***************************************************************************)
(* run_simulation: what the loop does after a simulate_day that returned   *)
(* active_spread.                                                          *)
(***************************************************************************)
max_recovery == Max({cfg.recovery_days[1], cfg.recovery_days[2]})

Last(seq) == seq[Len(seq)]

\* run_check without the rule that ends the run when nobody is infected
run_check_no_extinction(v, e, active_spread, day) ==
    IF ~active_spread /\ day > max_recovery
    THEN IF e.infection_day = EmptyDict /\ v = "src"
         THEN "ValueError"
         ELSE LET last_infection_day ==
                      IF e.infection_day = EmptyDict THEN 0
                      ELSE Max({e.infection_day[n] : n \in DOMAIN e.infection_day})
              IN  IF e.current_day - last_infection_day > max_recovery
                  THEN "stalled" ELSE "continue"
    ELSE "continue"

\* run_check with the stall rule firing without comparing current_day with the
\* latest infection_day
run_check_without_gap(v, e, active_spread, day) ==
    IF Last(e.stats.infected) = 0 THEN "extinct"
    ELSE IF ~active_spread /\ day > max_recovery
    THEN IF e.infection_day = EmptyDict /\ v = "src" THEN "ValueError" ELSE "stalled"
    ELSE "continue"

run_check(v, e, active_spread, day) ==
    IF Last(e.stats.infected) = 0 THEN "extinct"
    ELSE IF ~active_spread /\ day > max_recovery
    THEN IF e.infection_day = EmptyDict /\ v = "src"
         THEN "ValueError"   \* max() of an empty sequence
         ELSE LET last_infection_day ==
                      IF e.infection_day = EmptyDict THEN 0
                      ELSE Max({e.infection_day[n] : n \in DOMAIN e.infection_day})
              IN  IF e.current_day - last_infection_day > max_recovery
                  THEN "stalled" ELSE "continue"
    ELSE "continue"

(***************************************************************************)
(* The state after the builder was configured, and the operations.         *)
(***************************************************************************)
Called(op, result, ret) == [op |-> op, result |-> result, ret |-> ret]

\* Networks a caller hands to the constructor.
CallerNetworks == {None, PlainNetwork(PathEdges), WeightedNetwork(RingEdges, MinWeight)}

\* Identifiers of the manager (uuid4).
MaxSims == 1
SimIds == 1..MaxSims

\* The threads that handle the requests of the API, and a handler that is not
\* inside advance_simulation.
Handlers == 1..MaxHandlers

IdleHandler == [pc |-> "idle", items |-> EmptyDict]

\* The state after a builder was configured with one of `configs`.
InitWith(configs) ==
    /\ variant \in {"backend", "src"}
    /\ cfg \in configs
    /\ builder_network = None
    /\ sim = "none"
    /\ network = None
    /\ node_states = EmptyDict
    /\ infection_day = EmptyDict
    /\ recovery_day = EmptyDict
    /\ immunity_until = EmptyDict
    /\ stats = EmptyStats
    /\ current_day = 0
    /\ simulations = {}
    /\ pc = "idle"
    /\ run_day = 0
    /\ run_days = 0
    /\ last_call = Called("none", "ok", FALSE)
    /\ init_calls = "never"
    /\ inits = 0
    /\ stepped_early = FALSE
    /\ day_log = NoDayLog
    /\ threads = [t \in Handlers |-> IdleHandler]
    /\ registry = EmptyDict
    /\ built = <<>>

Init == InitWith(Configs)

\* EpidemicSimulation(network=net, ...) called directly, by a caller that
\* does not use the builder
Construct(net) ==
    /\ sim = "none"
    /\ last_call.op = "none"
    /\ \E n1 \in init_network(variant, net) : network' = n1
    /\ sim' = "live"
    /\ Assign(NewSelf)
    /\ last_call' = Called("__init__", "ok", FALSE)
    /\ UNCHANGED <<registry, variant, cfg, builder_network, simulations, pc, run_day, run_days,
                   init_calls, inits, stepped_early, built, day_log,
                   threads>>

\* The object identities of the simulation the k-th successful build() returns:
\* __init__ makes new state maps on every call; the network is the builder's
\* object (identity 0) or one generated for this simulation.
Identities(k, shared) == [network |-> IF shared THEN 0 ELSE k, state |-> k]

\* builder.build(), on a new builder or once more on a builder whose last
\* simulation has not been used yet
Build ==
    /\ \/ sim = "none"
       \/ last_call.op = "build" /\ Len(built) < MaxBuilds
    /\ \E o \in build(variant, builder_network, cfg) :
          /\ builder_network' = o.builder_network
          /\ last_call' = Called("build", o.result, FALSE)
          /\ IF o.result = "ok"
             THEN /\ sim' = "live"
                  /\ network' = o.network
                  /\ built' = Append(built, Identities(Len(built) + 1, o.shared))
             ELSE UNCHANGED <<sim, network, built>>
    /\ Assign(NewSelf)
    /\ UNCHANGED <<registry, variant, cfg, simulations, pc, run_day, run_days, init_calls,
                   inits, stepped_early, day_log,
                   threads>>

\* sim.generate_network(model), called as the builders and __init__ call it:
\* on an instance no other method was called on yet
GenerateNetwork(model) ==
    /\ sim = "live"
    /\ pc = "idle"
    /\ last_call.op \in {"__init__", "build", "generate_network"}
    /\ \E o \in generate_network(network, model) :
          /\ network' = o.network
          /\ last_call' = Called("generate_network", o.result, FALSE)
    /\ UNCHANGED <<registry, variant, cfg, builder_network, sim, engine, simulations, pc, run_day,
                   run_days, init_calls, inits, stepped_early, built, day_log,
                   threads>>

InitCalls(result) ==
    IF result = "ok" \/ init_calls = "ok" THEN "ok" ELSE "failed"

\* sim.initialize_infection(), while the series has fewer than `snapshots` entries
InitializeInfectionWithin(snapshots) ==
    /\ sim = "live"
    /\ pc = "idle"
    /\ Len(stats.day) < snapshots
    /\ inits < MaxInits
    /\ inits' = inits + 1
    /\ day_log' = NoDayLog
    /\ \E o \in initialize_infection(Self, network) :
          /\ Assign(o.self)
          /\ last_call' = Called("initialize_infection", o.result, FALSE)
          /\ init_calls' = InitCalls(o.result)
    /\ UNCHANGED <<registry, variant, cfg, builder_network, sim, network, simulations, pc, run_day,
                   run_days, stepped_early, built,
                   threads>>

InitializeInfection == InitializeInfectionWithin(MaxSnapshots)

\* sim.simulate_day(), up to day `last_day` and `snapshots` entries of the series
SimulateDayWithin(last_day, snapshots) ==
    /\ sim = "live"
    /\ pc = "idle"
    /\ current_day < last_day
    /\ Len(stats.day) < snapshots
    /\ \E o \in simulate_day(variant, Self, network) :
          /\ Assign(o.self)
          /\ last_call' = Called("simulate_day", o.result, o.ret)
          /\ day_log' = o.log
    /\ stepped_early' = (stepped_early \/ init_calls # "ok")
    /\ UNCHANGED <<registry, variant, cfg, builder_network, sim, network, simulations, pc, run_day,
                   run_days, init_calls, inits, built,
                   threads>>

SimulateDay == SimulateDayWithin(MaxDay, MaxSnapshots)

\* sim.run_simulation(days): initialize_infection(), then the loop is entered
RunSimulationWithin(days, last_day, snapshots) ==
    /\ sim = "live"
    /\ pc = "idle"
    /\ current_day + days <= last_day
    /\ Len(stats.day) + days < snapshots
    /\ inits < MaxInits
    /\ inits' = inits + 1
    /\ day_log' = NoDayLog
    /\ \E o \in initialize_infection(Self, network) :
          /\ Assign(o.self)
          /\ init_calls' = InitCalls(o.result)
          /\ run_day' = 0
          /\ run_days' = days
          /\ IF o.result = "ok" /\ days > 0
             THEN /\ pc' = "run_loop"
                  /\ last_call' = Called("initialize_infection", "ok", FALSE)
             ELSE /\ last_call' = Called("run_simulation", o.result, FALSE)
                  /\ UNCHANGED pc
    /\ UNCHANGED <<registry, variant, cfg, builder_network, sim, network, simulations,
                   stepped_early, built,
                   threads>>

RunSimulation(days) == RunSimulationWithin(days, MaxDay, MaxSnapshots)

\* one iteration of run_simulation's loop: simulate_day(), then the stopping rules
RunLoop ==
    /\ pc = "run_loop"
    /\ \E o \in simulate_day(variant, Self, network) :
          LET check == IF o.result = "ok"
                       THEN run_check(variant, o.self, o.ret, run_day)
                       ELSE o.result
          IN  /\ Assign(o.self)
              /\ day_log' = o.log
              /\ IF check = "continue" /\ run_day + 1 < run_days
                 THEN /\ run_day' = run_day + 1
                      /\ last_call' = Called("simulate_day", "ok", o.ret)
                      /\ UNCHANGED pc
                 ELSE /\ pc' = "idle"
                      /\ last_call' =
                            Called("run_simulation",
                                   IF check \in {"continue", "extinct", "stalled"}
                                   THEN "ok" ELSE check,
                                   FALSE)
                      /\ UNCHANGED run_day
    /\ UNCHANGED <<registry, variant, cfg, builder_network, sim, network, simulations, run_days,
                   init_calls, inits, stepped_early, built,
                   threads>>

\* SimulationManager.create_simulation(params): a new builder is configured
\* from params, build(), initialize_infection(), then the instance is stored.
CreateSimulation ==
    /\ variant = "backend"
    /\ sim = "none"
    /\ \E id \in SimIds \ simulations :
       \E b \in build(variant, None, cfg) :
          IF b.result # "ok"
          THEN /\ last_call' = Called("create_simulation", b.result, FALSE)
               /\ UNCHANGED <<sim, network, engine, simulations, init_calls, inits, day_log>>
          ELSE \E o \in initialize_infection(NewSelf, b.network) :
                  /\ Assign(o.self)
                  /\ inits' = inits + 1
                  /\ day_log' = NoDayLog
                  /\ network' = b.network
                  /\ sim' = "live"
                  /\ init_calls' = InitCalls(o.result)
                  /\ last_call' = Called("create_simulation", o.result, FALSE)
                  /\ simulations' =
                        IF o.result = "ok" THEN simulations \cup {id} ELSE simulations
    /\ UNCHANGED <<registry, variant, cfg, builder_network, pc, run_day, run_days, stepped_early, built,
                   threads>>

Next ==
    \/ \E net \in CallerNetworks : Construct(net)
    \/ Build
    \/ \E model \in KnownModels \cup {"unknown"} : GenerateNetwork(model)
    \/ InitializeInfection
    \/ SimulateDay
    \/ \E days \in 0..MaxRunDays : RunSimulation(days)
    \/ RunLoop
    \/ CreateSimulation

Spec == Init /\ [][Next]_vars

(***************************************************************************)
(* The same operations over a longer horizon, for three configurations:    *)
(* the base configuration, the one in which no transmission succeeds and   *)
(* one without mortality and with a fixed recovery time of two days.       *)
(***************************************************************************)
LongRunConfigs ==
    {BaseConfig,
     [BaseConfig EXCEPT !.infection_probability = 0],
     [BaseConfig EXCEPT !.mortality_rate = 0, !.recovery_days = <<2, 2>>]}

LongInit == InitWith(LongRunConfigs)

LongNext ==
    \/ \E net \in CallerNetworks : Construct(net)
    \/ Build
    \/ \E model \in KnownModels \cup {"unknown"} : GenerateNetwork(model)
    \/ InitializeInfectionWithin(LongMaxSnapshots)
    \/ SimulateDayWithin(LongMaxDay, LongMaxSnapshots)
    \/ \E days \in 0..MaxRunDays : RunSimulationWithin(days, LongMaxDay, LongMaxSnapshots)
    \/ RunLoop
    \/ CreateSimulation

LongSpec == LongInit /\ [][LongNext]_vars

(***************************************************************************)
(* The API: routes.py hands each request to SimulationManager on the       *)
(* thread that serves it, and nothing in routes.py, SimulationManager or   *)
(* the engine takes a lock.  A handler inside advance_simulation(id, 1)    *)
(* is modelled in the steps of simulate_day between which another thread   *)
(* can run (each ends at a call: list(...), random.random(), neighbors()). *)
(* create_simulation never stores an instance (its build() raises), so the *)
(* registered instance is one a caller constructed and stored in           *)
(* manager.simulations itself, the dict routes.py reads directly.          *)
(***************************************************************************)
\* The first loop of simulate_day, run over the list `items` that was made of
\* self.node_states.items() earlier: the tests read the listed state, the
\* assignments go to self.
resolution_pass(e, items) ==
    LET day == e.current_day
        missing == {n \in DOMAIN items :
                       items[n] = Infected /\ n \notin DOMAIN e.recovery_day}
        reached == {n \in DOMAIN items : \A x \in missing : n < x}
        resolving == {n \in reached : items[n] = Infected /\ e.recovery_day[n] <= day}
        waning == {n \in reached :
                      /\ items[n] = Recovered
                      /\ n \in DOMAIN e.immunity_until
                      /\ e.immunity_until[n] <= day}
    IN  {[self |->
             [e EXCEPT
                !.node_states = [n \in (DOMAIN @) \cup (DOMAIN items) |->
                    IF n \in resolving THEN (IF dies(mdraw[n]) THEN Deceased ELSE Recovered)
                    ELSE IF n \in waning THEN Susceptible
                    ELSE @[n]],
                !.immunity_until = [n \in (DOMAIN @) \cup {x \in resolving : ~dies(mdraw[x])} |->
                    IF n \in resolving /\ ~dies(mdraw[n])
                    THEN day + cfg.immunity_period ELSE @[n]]],
          result |-> IF missing = {} THEN "ok" ELSE "KeyError"] :
            mdraw \in [resolving -> Draws]}

\* The rest of simulate_day: the transmission loop, the commit loop,
\* _update_stats and the return value.
transmission_pass(v, e, net) ==
    LET ns == e.node_states
        trials == {p \in Nodes \X Nodes : trial(ns, net, p[1], p[2])}
    IN  UNION {
          LET candidates == new_infections(v, ns, net, tdraw)
          IN  IF candidates # <<>> /\ RecoveryPeriods = {}
              THEN {[self |-> [e EXCEPT
                        !.node_states = Put(@, candidates[1], Infected),
                        !.infection_day = Put(@, candidates[1], e.current_day)],
                     result |-> "ValueError",
                     log |-> DayLog("ValueError", FALSE, candidates, <<>>)]}
              ELSE {LET c == commit(v, [self |-> e, randint |-> <<>>], candidates, period, 1)
                    IN  [self |-> _update_stats(c.self),
                         result |-> "ok",
                         log |-> DayLog("ok", any_new_infections(candidates),
                                        candidates, c.randint)] :
                      period \in [1..Len(candidates) -> RecoveryPeriods]}
          : tdraw \in [trials -> Draws]}

\* manager.simulations[id] = sim, by the caller that constructed sim
Register ==
    /\ sim = "live"
    /\ pc = "idle"
    /\ \E id \in SimIds \ simulations : simulations' = simulations \cup {id}
    /\ last_call' = Called("register", "ok", FALSE)
    /\ UNCHANGED <<registry, variant, cfg, builder_network, sim, network, engine, pc, run_day,
                   run_days, init_calls, inits, stepped_early, day_log, threads, built>>

\* advance_simulation(sim_id, 1) up to sim.simulate_day(): the lookup
AdvanceLookup(t) ==
    /\ threads[t].pc = "idle"
    /\ IF simulations = {}
       THEN /\ threads' = [threads EXCEPT ![t].pc = "done"]
            /\ last_call' = Called("advance_simulation", "Simulation not found", FALSE)
       ELSE /\ threads' = [threads EXCEPT ![t].pc = "increment"]
            /\ UNCHANGED last_call
    /\ UNCHANGED <<registry, variant, cfg, builder_network, sim, network, engine, simulations, pc,
                   run_day, run_days, init_calls, inits, stepped_early, day_log, built>>

\* simulate_day: self.current_day += 1
AdvanceIncrement(t) ==
    /\ threads[t].pc = "increment"
    /\ current_day' = current_day + 1
    /\ threads' = [threads EXCEPT ![t].pc = "list"]
    /\ stepped_early' = (stepped_early \/ init_calls # "ok")
    /\ UNCHANGED <<registry, variant, cfg, builder_network, sim, network, node_states,
                   infection_day, recovery_day, immunity_until, stats, simulations, pc,
                   run_day, run_days, last_call, init_calls, inits, day_log, built>>

\* simulate_day: list(self.node_states.items())
AdvanceList(t) ==
    /\ threads[t].pc = "list"
    /\ threads' = [threads EXCEPT ![t].pc = "resolve", ![t].items = node_states]
    /\ UNCHANGED <<registry, variant, cfg, builder_network, sim, network, engine, simulations, pc,
                   run_day, run_days, last_call, init_calls, inits, stepped_early,
                   day_log, built>>

\* simulate_day: the loop over the list
AdvanceResolve(t) ==
    /\ threads[t].pc = "resolve"
    /\ \E o \in resolution_pass(Self, threads[t].items) :
          /\ Assign(o.self)
          /\ IF o.result = "ok"
             THEN /\ threads' = [threads EXCEPT ![t].pc = "transmit", ![t].items = EmptyDict]
                  /\ UNCHANGED <<last_call, day_log>>
             ELSE /\ threads' = [threads EXCEPT ![t] = [pc |-> "done", items |-> EmptyDict]]
                  /\ last_call' = Called("advance_simulation", o.result, FALSE)
                  /\ day_log' = DayLog(o.result, FALSE, <<>>, <<>>)
    /\ UNCHANGED <<registry, variant, cfg, builder_network, sim, network, simulations, pc, run_day,
                   run_days, init_calls, inits, stepped_early, built>>

\* simulate_day: the transmission and commit loops and _update_stats; then
\* advance_simulation returns
AdvanceTransmit(t) ==
    /\ threads[t].pc = "transmit"
    /\ \E o \in transmission_pass(variant, Self, network) :
          /\ Assign(o.self)
          /\ day_log' = o.log
          /\ last_call' = Called("advance_simulation", o.result, FALSE)
    /\ threads' = [threads EXCEPT ![t].pc = "done"]
    /\ UNCHANGED <<registry, variant, cfg, builder_network, sim, network, simulations, pc, run_day,
                   run_days, init_calls, inits, stepped_early, built>>

\* get_simulation_state with the recovered count taken as `state >= 2`
get_simulation_state_overcount(sims, e, sim_id) ==
    IF sim_id \notin sims
    THEN [error |-> "Simulation not found"]
    ELSE [current_day |-> e.current_day,
          susceptible |-> Count(e.node_states, Susceptible),
          infected |-> Count(e.node_states, Infected),
          recovered |-> Count(e.node_states, Recovered) + Count(e.node_states, Deceased),
          deceased |-> Count(e.node_states, Deceased)]

\* SimulationManager.get_simulation_state(sim_id): the value returned, e the
\* fields of the stored simulation
get_simulation_state(sims, e, sim_id) ==
    IF sim_id \notin sims
    THEN [error |-> "Simulation not found"]
    ELSE [current_day |-> e.current_day,
          susceptible |-> Count(e.node_states, Susceptible),
          infected |-> Count(e.node_states, Infected),
          recovered |-> Count(e.node_states, Recovered),
          deceased |-> Count(e.node_states, Deceased)]

\* SimulationManager.get_statistics(sim_id): the value returned
get_statistics(sims, e, sim_id) ==
    IF sim_id \notin sims
    THEN [error |-> "Simulation not found"]
    ELSE [days |-> e.stats.day,
          susceptible |-> e.stats.susceptible,
          infected |-> e.stats.infected,
          recovered |-> e.stats.recovered,
          deceased |-> e.stats.deceased]

\* GET /api/simulations/<sim_id>/state, served while the handlers of advance
\* requests may be anywhere
GetSimulationState(sim_id) ==
    /\ last_call' = Called("get_simulation_state", "ok",
                           get_simulation_state(simulations, Self, sim_id))
    /\ UNCHANGED <<registry, variant, cfg, builder_network, sim, network, engine, simulations, pc,
                   run_day, run_days, init_calls, inits, stepped_early, day_log, threads,
                   built>>

\* GET /api/simulations/<sim_id>/statistics
GetStatistics(sim_id) ==
    /\ last_call' = Called("get_statistics", "ok",
                           get_statistics(simulations, Self, sim_id))
    /\ UNCHANGED <<registry, variant, cfg, builder_network, sim, network, engine, simulations, pc,
                   run_day, run_days, init_calls, inits, stepped_early, day_log, threads,
                   built>>

ApiConfigs == {BaseConfig}

ApiInit == InitWith(ApiConfigs) /\ variant = "backend"

ApiNext ==
    \/ \E net \in CallerNetworks : Construct(net)
    \/ InitializeInfection
    \/ CreateSimulation
    \/ Register
    \/ \E t \in Handlers :
          \/ AdvanceLookup(t)
          \/ AdvanceIncrement(t)
          \/ AdvanceList(t)
          \/ AdvanceResolve(t)
          \/ AdvanceTransmit(t)
    \/ \E sim_id \in SimIds : GetSimulationState(sim_id)
    \/ \E sim_id \in SimIds : GetStatistics(sim_id)

ApiSpec == ApiInit /\ [][ApiNext]_vars

(***************************************************************************)
(* run_simulation with enough days for the loop index to pass the longest  *)
(* recovery period while the outbreak goes on.                             *)
(***************************************************************************)
RunMaxDays == 5

RunConfigs == {BaseConfig}

RunInit == InitWith(RunConfigs)

RunNext ==
    \/ \E net \in CallerNetworks : Construct(net)
    \/ \E days \in 0..RunMaxDays : RunSimulationWithin(days, RunMaxDays, RunMaxDays + 1)
    \/ RunLoop

RunSpec == RunInit /\ [][RunNext]_vars

(***************************************************************************)
(* create_animation(days): the six fields are copied into current_state,   *)
(* reset, initialize_infection() runs on the reset fields, every frame     *)
(* after the first calls simulate_day(), and the copies are assigned back. *)
(* There is no try/finally: a call that raises leaves the fields as the    *)
(* animation had them.                                                     *)
(***************************************************************************)
MaxAnimationDays == 2

\* The frames FuncAnimation draws: ani.save draws frames 0..days-1 once;
\* plt.show() repeats them until the window is closed (here after at most
\* two passes).  update(frame) calls simulate_day() when frame > 0.
AnimationCalls(days) ==
    LET pass == IF days > 0 THEN days - 1 ELSE 0
    IN  {pass, 2 * pass}

\* `calls` times simulate_day() on each of the outcomes E that has not raised
RECURSIVE animate(_, _, _, _)
animate(v, E, net, calls) ==
    IF calls = 0 THEN E
    ELSE animate(v,
                 UNION {IF o.result = "ok"
                        THEN {[self |-> x.self, result |-> x.result] :
                                 x \in simulate_day(v, o.self, net)}
                        ELSE {o} : o \in E},
                 net, calls - 1)

\* The assignments from current_state that omit self.stats
restore_without_stats(current_state, e) == [current_state EXCEPT !.stats = e.stats]

\* self.node_states = current_state['node_states'] ... self.current_day = ...
restore(current_state, e) == current_state

\* The fields after create_animation and how the call ended.
create_animation(v, e, net, calls) ==
    LET current_state == e
        frames == animate(v, initialize_infection(NewSelf, net), net, calls)
    IN  {IF o.result = "ok"
         THEN [self |-> restore(current_state, o.self), result |-> "ok"]
         ELSE o : o \in frames}

\* sim.create_animation(days)
CreateAnimation(days) ==
    /\ sim = "live"
    /\ pc = "idle"
    /\ \E calls \in AnimationCalls(days) :
       \E o \in create_animation(variant, Self, network, calls) :
          /\ Assign(o.self)
          /\ last_call' = Called("create_animation", o.result, FALSE)
          /\ IF o.result = "ok"
             THEN UNCHANGED <<init_calls, inits, stepped_early, day_log>>
             ELSE /\ init_calls' = IF o.self.stats.day = <<>> THEN "failed" ELSE "ok"
                  /\ inits' = 1
                  /\ stepped_early' = FALSE
                  /\ day_log' = DayLog(o.result, FALSE, <<>>, <<>>)
    /\ UNCHANGED <<registry, variant, cfg, builder_network, sim, network, simulations, pc, run_day,
                   run_days, built, threads>>

AnimationConfigs ==
    {BaseConfig,
     [BaseConfig EXCEPT !.initial_infected_percent = 150],
     [BaseConfig EXCEPT !.recovery_days = <<2, 1>>]}

AnimationInit == InitWith(AnimationConfigs)

AnimationNext ==
    \/ \E net \in CallerNetworks : Construct(net)
    \/ InitializeInfection
    \/ SimulateDay
    \/ \E days \in 0..MaxAnimationDays : CreateAnimation(days)

AnimationSpec == AnimationInit /\ [][AnimationNext]_vars

(***************************************************************************)
(* SimulationManager with several simulations stored, the requests served  *)
(* one at a time.  `registry` is manager.simulations with the simulation   *)
(* objects: each id with the fields and the network of its simulation.     *)
(* The simulations are stored the way create_simulation stores one:        *)
(* constructed, initialize_infection(), then simulations[sim_id] = it.     *)
(***************************************************************************)
MaxAdvanceSims == 2
MaxAdvanceDays == 2

AdvanceIds == 1..MaxAdvanceSims

\* for _ in range(days): sim.simulate_day(), ended when nobody is infected
RECURSIVE advance_until_extinct(_, _, _, _)
advance_until_extinct(v, e, net, days) ==
    IF days <= 0 \/ (e.stats.infected # <<>> /\ Last(e.stats.infected) = 0)
    THEN {[self |-> e, result |-> "ok"]}
    ELSE UNION {IF x.result = "ok"
                THEN advance_until_extinct(v, x.self, net, days - 1)
                ELSE {[self |-> x.self, result |-> x.result]} :
                    x \in simulate_day(v, e, net)}

\* for _ in range(days): sim.simulate_day()
advance(v, e, net, days) ==
    animate(v, {[self |-> e, result |-> "ok"]}, net, IF days > 0 THEN days ELSE 0)

\* simulation = EpidemicSimulation(network=net, ...);
\* simulation.initialize_infection(); self.simulations[sim_id] = simulation
Store(sim_id, net) ==
    /\ sim_id \notin DOMAIN registry
    /\ \E n1 \in init_network(variant, net) :
       \E o \in initialize_infection(NewSelf, n1) :
          IF o.result = "ok"
          THEN /\ registry' = Put(registry, sim_id, [self |-> o.self, network |-> n1])
               /\ simulations' = simulations \cup {sim_id}
               /\ last_call' = Called("store", "ok", FALSE)
          ELSE /\ last_call' = Called("store", o.result, FALSE)
               /\ UNCHANGED <<registry, simulations>>
    /\ UNCHANGED <<variant, cfg, builder_network, sim, network, engine, pc, run_day,
                   run_days, init_calls, inits, stepped_early, day_log, threads, built>>

\* What advance_simulation was called with and what came of it.
AdvanceCalled(sim_id, days, result, ret) ==
    [op |-> "advance_simulation", result |-> result, ret |-> ret,
     sim_id |-> sim_id, days |-> days]

\* manager.advance_simulation(sim_id, days), up to MaxAdvanceDays days in all
AdvanceSimulation(sim_id, days) ==
    /\ IF sim_id \notin DOMAIN registry
       THEN /\ last_call' = AdvanceCalled(sim_id, days, "Simulation not found", FALSE)
            /\ UNCHANGED registry
       ELSE /\ registry[sim_id].self.current_day + days <= MaxAdvanceDays
            /\ \E o \in advance(variant, registry[sim_id].self,
                                 registry[sim_id].network, days) :
                  /\ registry' = [registry EXCEPT ![sim_id].self = o.self]
                  /\ last_call' =
                        AdvanceCalled(sim_id, days, o.result,
                                      IF o.result = "ok"
                                      THEN [success |-> TRUE,
                                            current_day |-> o.self.current_day]
                                      ELSE FALSE)
    /\ UNCHANGED <<variant, cfg, builder_network, sim, network, engine, simulations, pc,
                   run_day, run_days, init_calls, inits, stepped_early, day_log, threads,
                   built>>

AdvanceConfigs == {BaseConfig, [BaseConfig EXCEPT !.immunity_period = 2]}

AdvanceInit == InitWith(AdvanceConfigs) /\ variant = "backend"

AdvanceNext ==
    \/ \E sim_id \in AdvanceIds, net \in CallerNetworks : Store(sim_id, net)
    \/ \E sim_id \in AdvanceIds, days \in 0..MaxAdvanceDays : AdvanceSimulation(sim_id, days)

AdvanceSpec == AdvanceInit /\ [][AdvanceNext]_vars

(***************************************************************************)
(* Properties.                                                             *)
(***************************************************************************)
\* A step that calls simulate_day (directly or from run_simulation's loop):
\* simulate_day starts with self.current_day += 1 and nothing else adds to it.
DayStep == current_day' = current_day + 1

\* A step that calls initialize_infection (directly, from run_simulation or
\* from create_simulation).
InitStep == inits' = inits + 1

EqualLengths ==
    /\ Len(stats.susceptible) = Len(stats.day)
    /\ Len(stats.infected) = Len(stats.day)
    /\ Len(stats.recovered) = Len(stats.day)
    /\ Len(stats.deceased) = Len(stats.day)

SumAt(i) ==
    stats.susceptible[i] + stats.infected[i] + stats.recovered[i] + stats.deceased[i]

\* C1: Conservation.  The five statistics arrays always have the same length,
\* and on an instance whose simulate_day calls all came after a successful
\* initialize_infection, the four counts of every snapshot add up to the
\* number of nodes of the network.
C1_Conservation ==
    /\ EqualLengths
    /\ (init_calls = "ok" /\ ~stepped_early) =>
           \A i \in 1..Len(stats.day) : SumAt(i) = NumNodes

\* C1 witness: three snapshots or more, the last one with a deceased and a
\* recovered node.
C1_Witness ==
    /\ init_calls = "ok"
    /\ ~stepped_early
    /\ Len(stats.day) >= 3
    /\ Last(stats.deceased) > 0
    /\ Last(stats.recovered) > 0

\* C2: Terminal state.  No simulate_day call, of either engine, changes the
\* state of a node that is Deceased when the call starts.
C2_TerminalState ==
    [][DayStep =>
          \A n \in DOMAIN node_states :
              node_states[n] = Deceased =>
                  n \in DOMAIN node_states' /\ node_states'[n] = Deceased]_vars

\* C2 witness: the src engine completed a simulate_day that started with a
\* Deceased node next to an Infected one.
C2_Witness ==
    /\ variant = "src"
    /\ last_call = Called("simulate_day", "ok", FALSE)
    /\ Len(stats.day) >= 2
    /\ stats.deceased[Len(stats.day) - 1] > 0
    /\ stats.infected[Len(stats.day) - 1] > 0

\* C3: Monotonic clock (as claimed).  In every state after a successful
\* initialization the statistics series has current_day + 1 snapshots and
\* snapshot i is of day i (counted from 0).
C3_MonotonicClock ==
    init_calls = "ok" =>
        /\ Len(stats.day) = current_day + 1
        /\ \A i \in 1..Len(stats.day) : stats.day[i] = i - 1

\* C4: Initialization guard (as claimed).  A call of initialize_infection on
\* an instance that was initialized before fails with InvalidState and
\* changes nothing.
C4_InitializationGuard ==
    [][(InitStep /\ init_calls = "ok") =>
          /\ last_call'.result = "InvalidState"
          /\ UNCHANGED engine]_vars

\* C5: Stepping before initialization (as claimed).  simulate_day on an
\* instance initialize_infection was never called on fails with InvalidState,
\* current_day is not incremented and no snapshot is appended.
C5_SteppingBeforeInitialization ==
    [][(SimulateDay /\ init_calls = "never") =>
          /\ last_call'.result = "InvalidState"
          /\ current_day' = current_day
          /\ stats' = stats]_vars

\* floor(initial_infected_percent * n)
floor_k == (cfg.initial_infected_percent * NumNodes) \div 100

\* C6: Initialization postcondition (as claimed).  A successful
\* initialize_infection on a fresh instance leaves exactly
\* floor(initial_infected_percent * n) nodes Infected, each with infection_day
\* 0 and recovery_day within the configured range, the others Susceptible, and
\* appends the one snapshot (0, n - k, k, 0, 0).
C6_InitializationPostcondition ==
    [][(InitializeInfection /\ inits = 0 /\ stats = EmptyStats /\ current_day = 0
          /\ last_call'.result = "ok") =>
          LET inf == {n \in DOMAIN node_states' : node_states'[n] = Infected}
          IN  /\ DOMAIN node_states' = Nodes
              /\ Cardinality(inf) = floor_k
              /\ \A n \in inf :
                    /\ infection_day'[n] = 0
                    /\ recovery_day'[n] >= cfg.recovery_days[1]
                    /\ recovery_day'[n] <= cfg.recovery_days[2]
              /\ \A n \in Nodes \ inf : node_states'[n] = Susceptible
              /\ stats' = [day |-> <<0>>, susceptible |-> <<NumNodes - floor_k>>,
                           infected |-> <<floor_k>>, recovered |-> <<0>>,
                           deceased |-> <<0>>]]_vars

\* C7: No partial state on failure (as claimed).  A failing
\* initialize_infection leaves node_states, infection_day, recovery_day and
\* the statistics series as they were.
C7_NoPartialState ==
    [][(InitStep /\ last_call'.result # "ok") =>
          UNCHANGED <<node_states, infection_day, recovery_day, stats>>]_vars

\* C8: Build validation (as claimed).  build() on a configuration outside the
\* ranges of the data model fails with InvalidConfiguration and returns no
\* simulation.
C8_BuildValidation ==
    (last_call.op = "build" /\ ~ValidConfig(cfg)) =>
        last_call.result = "InvalidConfiguration" /\ sim = "none"

\* C9: Successful construction (as claimed).  For a valid configuration the
\* backend builder's build() returns a Simulation with empty state and
\* current_day 0, and create_simulation initializes it and registers it.
C9_SuccessfulConstruction ==
    (variant = "backend" /\ ValidConfig(cfg) /\ cfg.network_model \in KnownModels) =>
        /\ last_call.op = "build" =>
              /\ last_call.result = "ok"
              /\ sim = "live"
              /\ Self = NewSelf
        /\ last_call.op = "create_simulation" =>
              /\ last_call.result = "ok"
              /\ sim = "live"
              /\ simulations # {}

\* C10: Unknown model.  Network generation with a model name outside the three
\* known ones ends with an error and produces no network: build() and
\* create_simulation return no simulation and leave the builder's cached
\* network unset and the registry as it was, generate_network leaves
\* self.network as it was.
C10_UnknownModel ==
    [][/\ ((Build \/ CreateSimulation) /\ cfg.network_model \notin KnownModels) =>
             /\ last_call'.result = "ValueError"
             /\ builder_network' = None
             /\ sim' = "none"
             /\ network' = None
             /\ simulations' = simulations
       /\ \A model \in {"unknown"} :
             GenerateNetwork(model) =>
                 /\ last_call'.result = "ValueError"
                 /\ network' = network]_vars

\* C10 witness: the backend builder's build() ended with the ValueError of an
\* unknown model.
C10_Witness ==
    /\ variant = "backend"
    /\ cfg.network_model = "unknown"
    /\ last_call = Called("build", "ValueError", FALSE)
    /\ builder_network = None
    /\ sim = "none"

\* A step that calls builder.build(): only Build sets last_call to a "build".
BuildStep == last_call'.op = "build"

\* C11: Independent builds (as claimed).  build() leaves every field of the
\* builder as it was, and two simulations returned by build() on one builder
\* share neither their Network object nor their state maps.
C11_IndependentBuilds ==
    /\ [][BuildStep => UNCHANGED <<cfg, builder_network>>]_vars
    /\ [](\A i, j \in DOMAIN built :
              i # j => /\ built[i].network # built[j].network
                       /\ built[i].state # built[j].state)

\* C12: Resolution phase.  On every simulate_day, a node that is Infected when
\* the day starts and whose recovery_day is at most the incremented
\* current_day is Deceased or Recovered when the call ends, and if Recovered
\* its immunity_until is current_day + immunity_period; an Infected node whose
\* recovery_day is later is still Infected.
C12_ResolutionPhase ==
    [][DayStep =>
          \A n \in (DOMAIN node_states) \cap (DOMAIN recovery_day) :
              node_states[n] = Infected =>
                  IF recovery_day[n] <= current_day'
                  THEN /\ node_states'[n] \in {Recovered, Deceased}
                       /\ node_states'[n] = Recovered =>
                              /\ n \in DOMAIN immunity_until'
                              /\ immunity_until'[n] = current_day' + cfg.immunity_period
                  ELSE node_states'[n] = Infected]_vars

\* C12 witness: a simulate_day after which one node has just recovered, with
\* its immunity_until set, while a node infected on an earlier day is still
\* Infected because its recovery_day lies ahead.
C12_Witness ==
    /\ last_call.op = "simulate_day"
    /\ last_call.result = "ok"
    /\ \E n \in DOMAIN node_states :
          /\ node_states[n] = Recovered
          /\ recovery_day[n] = current_day
          /\ immunity_until[n] = current_day + cfg.immunity_period
    /\ \E m \in DOMAIN node_states :
          /\ node_states[m] = Infected
          /\ infection_day[m] < current_day
          /\ recovery_day[m] > current_day

\* C13: Waning immunity.  On every simulate_day, a node that is Recovered when
\* the day starts has left the Recovered state when the call ends (it is
\* Susceptible, or Infected anew) iff its immunity_until is at most the
\* incremented current_day; with immunity_period = 0 every Recovered node
\* leaves the Recovered state on the next day.
C13_WaningImmunity ==
    [][DayStep =>
          \A n \in DOMAIN node_states :
              node_states[n] = Recovered =>
                  /\ IF n \in DOMAIN immunity_until /\ immunity_until[n] <= current_day'
                     THEN node_states'[n] \in {Susceptible, Infected}
                     ELSE node_states'[n] = Recovered
                  /\ cfg.immunity_period = 0 => node_states'[n] # Recovered]_vars

\* C13 witness: with an immunity period of two days, a simulate_day on which
\* the immunity of one node ran out, so that it is Susceptible again, while
\* another node keeps its immunity and is still Recovered.
C13_Witness ==
    /\ last_call.op = "simulate_day"
    /\ last_call.result = "ok"
    /\ inits = 1
    /\ cfg.immunity_period = 2
    /\ \E n \in DOMAIN node_states :
          /\ node_states[n] = Susceptible
          /\ n \in DOMAIN immunity_until
          /\ immunity_until[n] = current_day
    /\ \E m \in DOMAIN node_states :
          /\ node_states[m] = Recovered
          /\ immunity_until[m] > current_day

\* C14: No self-reinfection on the same day.  A node that is Infected when the
\* day starts and resolves on that day is not infected again by that
\* simulate_day (it is not Infected afterwards and its infection_day is
\* untouched), and it infects nobody: every node the call newly infects has a
\* neighbour that was Infected at the start and did not resolve.
C14_NoSelfReinfection ==
    [][DayStep =>
          /\ \A n \in (DOMAIN node_states) \cap (DOMAIN recovery_day) :
                (node_states[n] = Infected /\ recovery_day[n] <= current_day') =>
                    /\ node_states'[n] # Infected
                    /\ n \in DOMAIN infection_day => infection_day'[n] = infection_day[n]
          /\ \A m \in DOMAIN node_states' :
                (node_states'[m] = Infected /\ Get(node_states, m, Susceptible) # Infected) =>
                    \E n \in neighbors(network, m) :
                        /\ n \in DOMAIN node_states
                        /\ node_states[n] = Infected
                        /\ n \in DOMAIN recovery_day
                        /\ recovery_day[n] > current_day']_vars

\* C14 witness: at infection probability 1, a simulate_day on which a node
\* resolved next to a neighbour that is Susceptible afterwards.
C14_Witness ==
    /\ last_call.op = "simulate_day"
    /\ last_call.result = "ok"
    /\ cfg.infection_probability = 100
    /\ \E n \in DOMAIN node_states :
          /\ node_states[n] \in {Recovered, Deceased}
          /\ recovery_day[n] = current_day
          /\ \E m \in neighbors(network, n) : node_states[m] = Susceptible

\* C15: At most one infection per node per day (as claimed).  After a completed
\* simulate_day, every node of its new_infections list is Infected with
\* infection_day = current_day, exactly one recovery period was drawn for it,
\* however often it is in the list, and its recovery_day is the one of that
\* draw.
C15_AtMostOneInfection ==
    day_log.result = "ok" =>
        \A i \in DOMAIN day_log.new_infections :
            LET m == day_log.new_infections[i]
                draws == SelectSeq(day_log.randint, LAMBDA r : r.node = m)
            IN  /\ node_states[m] = Infected
                /\ infection_day[m] = current_day
                /\ Len(draws) = 1
                /\ recovery_day[m] = current_day + draws[1].period

\* C16: Return value of the step.  A completed simulate_day returns true iff
\* some node that was not Infected when the call started is Infected when it
\* ends, which is the case iff its new_infections list is not empty.
C16_ReturnValue ==
    [][(DayStep /\ day_log'.result = "ok") =>
          /\ day_log'.ret =
                (\E n \in DOMAIN node_states' :
                    /\ node_states'[n] = Infected
                    /\ Get(node_states, n, Susceptible) # Infected)
          /\ day_log'.ret = (day_log'.new_infections # <<>>)]_vars

\* C16 witness: a simulate_day that returned true with a single entry in
\* new_infections, while another Susceptible node stayed Susceptible.
C16_Witness ==
    /\ day_log.result = "ok"
    /\ day_log.ret
    /\ Len(day_log.new_infections) = 1
    /\ node_states[day_log.new_infections[1]] = Infected
    /\ \E n \in DOMAIN node_states : node_states[n] = Susceptible

\* A step of run_simulation's loop: one simulate_day and the stopping rules.
LoopStep == pc = "run_loop" /\ DayStep

\* C17: Bounded run (as claimed).  The loop of run_simulation(days) makes at
\* most `days` simulate_day calls, each iteration either ends the run or moves
\* to the next day, and it ends the run when the day's snapshot has no
\* infected node; when run_simulation returns, current_day is at most `days`
\* and the series has at most days + 1 snapshots.
C17_BoundedRun ==
    /\ [](pc = "run_loop" => run_day < run_days)
    /\ []((last_call.op = "run_simulation" /\ last_call.result = "ok") =>
              /\ current_day <= run_days
              /\ Len(stats.day) <= run_days + 1)
    /\ [][LoopStep =>
              /\ pc' = "run_loop" => run_day' = run_day + 1
              /\ (day_log'.result = "ok" /\ Last(stats'.infected) = 0) =>
                     pc' = "idle"]_vars

\* max(self.infection_day.values()), 0 when nothing was recorded
latest_infection_day(inf_day) ==
    IF inf_day = EmptyDict THEN 0 ELSE Max({inf_day[n] : n \in DOMAIN inf_day})

\* C18: Stall stopping rule (as claimed).  run_simulation ends after a day d
\* (the value of current_day) on which no new infection occurred, with
\* d > max(recovery_days_range) and d minus the latest recorded infection_day
\* > max(recovery_days_range).
C18_StallRule ==
    [][(/\ LoopStep
        /\ day_log'.result = "ok"
        /\ ~day_log'.ret
        /\ current_day' > max_recovery
        /\ current_day' - latest_infection_day(infection_day') > max_recovery) =>
          pc' = "idle"]_vars

\* C19: Zero initial infections.  With initial_infected_percent = 0 the loop
\* of run_simulation ends after its first simulate_day, which infects nobody;
\* a run on a new instance returns with the series holding day 0 and day 1
\* at most, and every snapshot of an instance stepped only after its
\* initialization has infected = 0 and susceptible = the number of nodes.
C19_ZeroInitialInfections ==
    /\ []((cfg.initial_infected_percent = 0 /\ init_calls = "ok" /\ ~stepped_early) =>
              \A i \in 1..Len(stats.day) :
                  stats.infected[i] = 0 /\ stats.susceptible[i] = NumNodes)
    /\ []((/\ cfg.initial_infected_percent = 0
           /\ last_call.op = "run_simulation"
           /\ last_call.result = "ok"
           /\ inits = 1
           /\ ~stepped_early) =>
              Len(stats.day) <= 2 /\ current_day <= 1)
    /\ [][(LoopStep /\ cfg.initial_infected_percent = 0) =>
              /\ run_day = 0
              /\ ~day_log'.ret
              /\ pc' = "idle"]_vars

\* C19 witness: run_simulation(2) on a new instance with
\* initial_infected_percent = 0 has returned after one simulated day.
C19_Witness ==
    /\ cfg.initial_infected_percent = 0
    /\ last_call = Called("run_simulation", "ok", FALSE)
    /\ inits = 1
    /\ ~stepped_early
    /\ run_days = 2
    /\ current_day = 1
    /\ stats.day = <<0, 1>>

\* C20: Full mortality.  With mortality_rate = 1.0 no node is ever Recovered
\* and the recovered count of every snapshot is 0; every node that resolves
\* on a simulate_day becomes Deceased; a simulate_day that starts with no
\* Infected node ends with none and appends a snapshot with infected = 0; and
\* the loop of run_simulation ends on a day whose snapshot has infected = 0.
C20_FullMortality ==
    /\ [](cfg.mortality_rate = 100 =>
              /\ \A i \in 1..Len(stats.day) : stats.recovered[i] = 0
              /\ \A n \in DOMAIN node_states : node_states[n] # Recovered)
    /\ [][(DayStep /\ cfg.mortality_rate = 100) =>
              /\ \A n \in (DOMAIN node_states) \cap (DOMAIN recovery_day) :
                    (node_states[n] = Infected /\ recovery_day[n] <= current_day') =>
                        node_states'[n] = Deceased
              /\ Count(node_states, Infected) = 0 =>
                    /\ Count(node_states', Infected) = 0
                    /\ day_log'.result = "ok" => Last(stats'.infected) = 0
              /\ (pc = "run_loop" /\ day_log'.result = "ok"
                     /\ Last(stats'.infected) = 0) => pc' = "idle"]_vars

\* C20 witness: with mortality_rate = 1.0, run_simulation(2) returned after
\* its first day, on which the last Infected node died.
C20_Witness ==
    /\ cfg.mortality_rate = 100
    /\ last_call = Called("run_simulation", "ok", FALSE)
    /\ run_days = 2
    /\ run_day = 0
    /\ Last(stats.deceased) > 0
    /\ Last(stats.infected) = 0
    /\ Last(stats.susceptible) > 0

\* An instance initialized once, before any simulate_day, whose last
\* simulate_day (if any) completed.
FreshRun ==
    /\ init_calls = "ok"
    /\ inits = 1
    /\ ~stepped_early
    /\ day_log.result \in {"none", "ok"}

\* C21: Zero mortality with fixed recovery time.  With mortality_rate = 0 the
\* deceased count of every snapshot is 0, and with recovery_days = (r, r), on
\* an instance initialized once at day 0, the k nodes infected at
\* initialization are Infected in the snapshots of days 0..r-1 and Recovered
\* in the snapshot of day r.
C21_ZeroMortalityFixedRecovery ==
    /\ cfg.mortality_rate = 0 =>
           \A i \in 1..Len(stats.day) : stats.deceased[i] = 0
    /\ (/\ cfg.mortality_rate = 0
        /\ cfg.recovery_days[1] = cfg.recovery_days[2]
        /\ FreshRun) =>
           LET r == cfg.recovery_days[1]
               k == num_initial_infected
           IN  /\ stats.infected[1] = k
               /\ \A i \in 1..Len(stats.day) :
                     /\ stats.day[i] < r => stats.infected[i] >= k
                     /\ stats.day[i] = r => stats.recovered[i] >= k
               /\ \A n \in DOMAIN infection_day :
                     infection_day[n] = 0 =>
                        /\ current_day < r => node_states[n] = Infected
                        /\ current_day = r => node_states[n] = Recovered

\* C21 witness: with mortality_rate = 0 and recovery_days = (2, 2), the
\* snapshots of days 0 and 1 show the initially infected node Infected and
\* the snapshot of day 2 shows it Recovered.
C21_Witness ==
    /\ cfg.mortality_rate = 0
    /\ cfg.recovery_days = <<2, 2>>
    /\ FreshRun
    /\ current_day = 2
    /\ stats.day = <<0, 1, 2>>
    /\ stats.infected[1] = 1
    /\ stats.infected[2] >= 1
    /\ stats.recovered[3] >= 1
    /\ \E n \in DOMAIN infection_day : infection_day[n] = 0 /\ node_states[n] = Recovered

\* The handlers that are inside simulate_day.
InSimulateDay == {t \in Handlers : threads[t].pc \in {"increment", "list", "resolve", "transmit"}}

\* C22: Serialized mutation (as claimed).  The simulate_day executions of two
\* advance requests for the same simulation never interleave: at most one
\* handler is inside simulate_day; no step of a handler changes the state of
\* a Deceased node; and the day series of an instance initialized once holds
\* the days 0, 1, 2, ... without a duplicate or a gap.
C22_SerializedMutation ==
    /\ [](Cardinality(InSimulateDay) <= 1)
    /\ [][threads' # threads =>
              \A n \in DOMAIN node_states :
                  node_states[n] = Deceased => node_states'[n] = Deceased]_vars
    /\ []((init_calls = "ok" /\ inits = 1 /\ ~stepped_early) =>
              \A i \in 1..Len(stats.day) : stats.day[i] = i - 1)

\* C24: Selectable transmission policy (as claimed).  The formulation of the
\* transmission probability is selected by the configuration and both are
\* available from the same engine: for the engine in use and each of the two
\* formulations there is a configuration under which the engine's trials use it.
C24_SelectablePolicy ==
    \A p \in Policies : \E c \in Configs : policy(variant, c) = p

\* Node n is Susceptible once the resolution and waning loop of the day that
\* ends as `day` has run: it was Susceptible, or Recovered with immunity over.
SusceptibleAfterWaning(n, day) ==
    \/ Get(node_states, n, Susceptible) = Susceptible
    \/ /\ node_states[n] = Recovered
       /\ n \in DOMAIN immunity_until
       /\ immunity_until[n] <= day

\* C25: Transmission locality.  A node that a simulate_day turns Infected was
\* Susceptible after that day's resolution and waning and is joined by an edge
\* of the network to a node that was Infected before the call and is still
\* Infected after it (so no node infected on the day infected it); and the
\* call leaves every node that is Deceased, Recovered with immunity left, or
\* Infected with its recovery day ahead, in its state.
C25_TransmissionLocality ==
    [][DayStep =>
          /\ \A n \in DOMAIN node_states' :
                (node_states'[n] = Infected /\ Get(node_states, n, Susceptible) # Infected) =>
                    /\ SusceptibleAfterWaning(n, current_day')
                    /\ \E m \in (DOMAIN node_states) \ {n} :
                          /\ {n, m} \in network.edges
                          /\ node_states[m] = Infected
                          /\ node_states'[m] = Infected
          /\ \A n \in DOMAIN node_states :
                LET kept == \/ node_states[n] = Deceased
                            \/ /\ node_states[n] = Recovered
                               /\ ~SusceptibleAfterWaning(n, current_day')
                            \/ /\ node_states[n] = Infected
                               /\ n \in DOMAIN recovery_day
                               /\ recovery_day[n] > current_day'
                IN  kept => node_states'[n] = node_states[n]]_vars

\* C25 witness: a completed simulate_day that infected a node while another
\* node, not joined to any Infected node, stayed Susceptible.
C25_Witness ==
    /\ day_log.result = "ok"
    /\ day_log.new_infections # <<>>
    /\ \E n \in DOMAIN node_states :
          /\ node_states[n] = Susceptible
          /\ \A m \in DOMAIN node_states :
                (node_states[m] = Infected /\ infection_day[m] < current_day) =>
                    {n, m} \notin network.edges

\* C26: Infection timers (as claimed).  Under a configuration the data model
\* allows, after every completed operation each Infected node has
\* infection_day <= current_day < recovery_day, and recovery_day is
\* infection_day + r for a period r of the configured range.
C26_InfectionTimers ==
    (ValidConfig(cfg) /\ last_call.result = "ok") =>
        \A n \in DOMAIN node_states :
            node_states[n] = Infected =>
                /\ n \in (DOMAIN infection_day) \cap (DOMAIN recovery_day)
                /\ infection_day[n] <= current_day
                /\ current_day < recovery_day[n]
                /\ recovery_day[n] - infection_day[n] \in RecoveryPeriods

\* s is an initial segment of t.
IsPrefix(s, t) == Len(s) <= Len(t) /\ \A i \in 1..Len(s) : s[i] = t[i]

\* C27: Animation leaves the simulation unchanged.  A create_animation that
\* returns leaves node_states, infection_day, recovery_day, immunity_until,
\* the statistics series and current_day as they were before the call; and
\* every step keeps the series it found as the beginning of the series it
\* leaves, except a create_animation that its reset cut short by raising.
C27_AnimationUnchanged ==
    /\ [][(last_call'.op = "create_animation" /\ last_call'.result = "ok") =>
              UNCHANGED engine]_vars
    /\ [][~(last_call'.op = "create_animation" /\ last_call'.result # "ok") =>
              /\ IsPrefix(stats.day, stats'.day)
              /\ IsPrefix(stats.susceptible, stats'.susceptible)
              /\ IsPrefix(stats.infected, stats'.infected)
              /\ IsPrefix(stats.recovered, stats'.recovered)
              /\ IsPrefix(stats.deceased, stats'.deceased)]_vars

\* C27 witness: create_animation has returned on an instance that was two
\* days into its own run, with infected and resolved nodes.
C27_Witness ==
    /\ last_call = Called("create_animation", "ok", FALSE)
    /\ current_day = 2
    /\ Len(stats.day) = 3
    /\ Last(stats.infected) > 0
    /\ Last(stats.recovered) + Last(stats.deceased) > 0

\* C28: Extinction is absorbing.  A simulate_day that starts when the latest
\* snapshot has infected = 0 returns false, makes no node Infected, changes
\* the state of a node only from Recovered to Susceptible, and a snapshot it
\* appends has infected = 0 again; so in the series of an instance that was
\* initialized once and stepped only afterwards, no snapshot with infected > 0
\* follows one with infected = 0.
C28_ExtinctionAbsorbing ==
    /\ [][(DayStep /\ stats.infected # <<>> /\ Last(stats.infected) = 0) =>
              /\ ~day_log'.ret
              /\ day_log'.new_infections = <<>>
              /\ \A n \in DOMAIN node_states' :
                    node_states'[n] = Infected =>
                        n \in DOMAIN node_states /\ node_states[n] = Infected
              /\ \A n \in DOMAIN node_states :
                    node_states'[n] # node_states[n] =>
                        node_states[n] = Recovered /\ node_states'[n] = Susceptible
              /\ Len(stats'.infected) > Len(stats.infected) =>
                    Last(stats'.infected) = 0]_vars
    /\ []((inits <= 1 /\ ~stepped_early) =>
              \A i, j \in 1..Len(stats.infected) :
                  (i < j /\ stats.infected[i] = 0) => stats.infected[j] = 0)

\* C28 witness: an outbreak that died out, and a later simulate_day on which
\* a node lost its immunity next to the snapshot with infected = 0.
C28_Witness ==
    /\ last_call.op = "simulate_day"
    /\ day_log.result = "ok"
    /\ Len(stats.infected) >= 3
    /\ stats.infected[1] > 0
    /\ stats.infected[Len(stats.infected) - 1] = 0
    /\ Last(stats.infected) = 0
    /\ \E n \in DOMAIN node_states :
          /\ node_states[n] = Susceptible
          /\ n \in DOMAIN immunity_until
          /\ immunity_until[n] = current_day

\* C29: The stall rule never fires on its own.  In the loop of a
\* run_simulation on an instance not used before, under a recovery range with
\* 1 <= min <= max: after a simulate_day whose snapshot has infected > 0,
\* current_day minus the latest infection_day is at most
\* max(recovery_days_range); and when the run returns before the last of its
\* `days` iterations, the latest snapshot has infected = 0.
C29_StallRuleNeverFires ==
    /\ [][(/\ LoopStep
            /\ inits = 1 /\ ~stepped_early
            /\ 1 <= cfg.recovery_days[1] /\ cfg.recovery_days[1] <= cfg.recovery_days[2]
            /\ day_log'.result = "ok"
            /\ Last(stats'.infected) > 0) =>
              current_day' - latest_infection_day(infection_day') <= max_recovery]_vars
    /\ [][(/\ LoopStep
            /\ inits = 1 /\ ~stepped_early
            /\ 1 <= cfg.recovery_days[1] /\ cfg.recovery_days[1] <= cfg.recovery_days[2]
            /\ pc' = "idle"
            /\ last_call'.result = "ok"
            /\ run_day + 1 < run_days) =>
              Last(stats'.infected) = 0]_vars

\* C29 witness: the loop of a run on a new instance goes on after an
\* iteration with index > max(recovery_days_range) that infected nobody and
\* left a node Infected.
C29_Witness ==
    /\ pc = "run_loop"
    /\ inits = 1 /\ ~stepped_early
    /\ day_log.result = "ok"
    /\ ~day_log.ret
    /\ run_day - 1 > max_recovery
    /\ Last(stats.infected) > 0

\* The changes of a node's state from one day to the next.
DayTransitions ==
    {<<Susceptible, Infected>>, <<Infected, Recovered>>, <<Infected, Deceased>>,
     <<Recovered, Susceptible>>, <<Recovered, Infected>>}

\* C30: Per-node day-to-day transition relation.  Over a simulate_day the
\* state of a node stays or changes by Susceptible -> Infected,
\* Infected -> Recovered, Infected -> Deceased, Recovered -> Susceptible or
\* Recovered -> Infected; an Infected node is not Susceptible on the next day
\* and a Susceptible node is neither Recovered nor Deceased on the next day.
C30_TransitionRelation ==
    [][DayStep =>
          \A n \in DOMAIN node_states' :
              LET before == Get(node_states, n, Susceptible)
                  after == node_states'[n]
              IN  /\ before = after \/ <<before, after>> \in DayTransitions
                  /\ before = Infected => after # Susceptible
                  /\ before = Susceptible => after \notin {Recovered, Deceased}]_vars

\* C30 witness: with immunity_period = 0, a completed simulate_day on which a
\* node that recovered the day before is Infected again and another node
\* resolved.
C30_Witness ==
    /\ day_log.result = "ok"
    /\ cfg.immunity_period = 0
    /\ \E n \in DOMAIN node_states :
          /\ node_states[n] = Infected
          /\ infection_day[n] = current_day
          /\ n \in DOMAIN immunity_until
          /\ immunity_until[n] = current_day - 1
    /\ \E m \in DOMAIN node_states :
          /\ node_states[m] \in {Recovered, Deceased}
          /\ recovery_day[m] = current_day

\* C31: Zero infection probability.  With infection_probability = 0 every
\* simulate_day, of either engine, returns false with an empty new_infections
\* list, turns no node Infected and does not raise the number of Infected
\* nodes; so the infected counts of an instance that was initialized once and
\* stepped only afterwards never increase from day 0 on.
C31_ZeroInfectionProbability ==
    /\ [][(DayStep /\ cfg.infection_probability = 0) =>
              /\ ~day_log'.ret
              /\ day_log'.new_infections = <<>>
              /\ \A n \in DOMAIN node_states' :
                    node_states'[n] = Infected =>
                        n \in DOMAIN node_states /\ node_states[n] = Infected
              /\ Count(node_states', Infected) <= Count(node_states, Infected)]_vars
    /\ []((cfg.infection_probability = 0 /\ inits <= 1 /\ ~stepped_early) =>
              \A i \in 1..(Len(stats.infected) - 1) :
                  stats.infected[i + 1] <= stats.infected[i])

\* C31 witness: with infection_probability = 0, a completed simulate_day after
\* which a node infected on an earlier day still has a Susceptible neighbour.
C31_Witness ==
    /\ cfg.infection_probability = 0
    /\ day_log.result = "ok"
    /\ current_day >= 1
    /\ \E n \in DOMAIN node_states :
          /\ node_states[n] = Infected
          /\ infection_day[n] < current_day
          /\ recovery_day[n] > current_day
          /\ \E m \in neighbors(network, n) : node_states[m] = Susceptible

\* C32: Snapshot faithfulness.  Whenever no handler is inside simulate_day and
\* the series is not empty, the last entry of each statistics array is the
\* number of nodes in that state and the last day is current_day; and the
\* counts get_simulation_state has just returned for a registered simulation
\* are the last entries of what get_statistics returns for it.
C32_SnapshotFaithfulness ==
    (InSimulateDay = {} /\ stats.day # <<>>) =>
        /\ Last(stats.day) = current_day
        /\ Last(stats.susceptible) = Count(node_states, Susceptible)
        /\ Last(stats.infected) = Count(node_states, Infected)
        /\ Last(stats.recovered) = Count(node_states, Recovered)
        /\ Last(stats.deceased) = Count(node_states, Deceased)
        /\ \A sim_id \in simulations :
              last_call.op = "get_simulation_state" =>
                  LET state == last_call.ret
                      statistics == get_statistics(simulations, Self, sim_id)
                  IN  /\ state.current_day = Last(statistics.days)
                      /\ state.susceptible = Last(statistics.susceptible)
                      /\ state.infected = Last(statistics.infected)
                      /\ state.recovered = Last(statistics.recovered)
                      /\ state.deceased = Last(statistics.deceased)

\* C32 witness: get_simulation_state answered for a registered simulation after
\* two advance requests were served, with a recovered and a deceased node.
C32_Witness ==
    /\ last_call.op = "get_simulation_state"
    /\ simulations # {}
    /\ \A t \in Handlers : threads[t].pc = "done"
    /\ Len(stats.day) >= 3
    /\ last_call.ret.recovered > 0
    /\ last_call.ret.deceased > 0

\* C33: API advance.  advance_simulation(sim_id, days) for a registered id
\* returns success after exactly `days` simulate_day calls on that
\* simulation: its current_day grows by `days`, each of its statistics arrays
\* by `days` entries, also when the infected count was 0 already, and the
\* value returned carries the new current_day; no other registered
\* simulation and no id of the registry changes.  For an unregistered id it
\* returns the error value and the registry stays as it was.
C33_ApiAdvance ==
    [][last_call'.op = "advance_simulation" =>
          LET sim_id == last_call'.sim_id
              days == last_call'.days
          IN  IF sim_id \in DOMAIN registry
              THEN LET before == registry[sim_id].self
                       after == registry'[sim_id].self
                   IN  /\ last_call'.result = "ok"
                       /\ last_call'.ret = [success |-> TRUE,
                                            current_day |-> before.current_day + days]
                       /\ after.current_day = before.current_day + days
                       /\ Len(after.stats.day) = Len(before.stats.day) + days
                       /\ Len(after.stats.susceptible) = Len(before.stats.susceptible) + days
                       /\ Len(after.stats.infected) = Len(before.stats.infected) + days
                       /\ Len(after.stats.recovered) = Len(before.stats.recovered) + days
                       /\ Len(after.stats.deceased) = Len(before.stats.deceased) + days
                       /\ IsPrefix(before.stats.day, after.stats.day)
                       /\ DOMAIN registry' = DOMAIN registry
                       /\ \A other \in (DOMAIN registry) \ {sim_id} :
                             registry'[other] = registry[other]
                       /\ registry'[sim_id].network = registry[sim_id].network
              ELSE /\ last_call'.result = "Simulation not found"
                   /\ registry' = registry
                   /\ simulations' = simulations]_vars

\* C33 witness: two simulations are registered; advance_simulation has
\* returned for the first one, which had no infected node left a day before,
\* while the second is still at day 0 with an infected node.
C33_Witness ==
    /\ last_call.op = "advance_simulation"
    /\ last_call.result = "ok"
    /\ DOMAIN registry = {1, 2}
    /\ registry[1].self.current_day = 2
    /\ registry[1].self.stats.infected[2] = 0
    /\ Len(registry[1].self.stats.day) = 3
    /\ registry[2].self.current_day = 0
    /\ registry[2].self.stats.infected = <<1>>

\* What a simulate_day of engine v can leave from the present state: the
\* fields (the appended snapshot among them), how it ended and the value
\* it returned.
day_results(v) ==
    {[self |-> o.self, result |-> o.result, ret |-> o.ret] :
        o \in simulate_day(v, Self, network)}

\* Each trial of the present network has the same possible outcomes under
\* the formula of either engine.
SameTrialOutcomes ==
    \A n \in Nodes : \A m \in neighbors(network, n) :
        {transmits("backend", network, n, m, draw) : draw \in Draws}
            = {transmits("src", network, n, m, draw) : draw \in Draws}

====
